---------------------------- MODULE Spec2Model ----------------------------
(***************************************************************************)
(* Traffic sign detection service (backend/main.py, backend/yolo_module.py) *)
(*                                                                         *)
(* Strings the code inspects character by character (content types, file   *)
(* names, the text of the class mapping file, the bytes of an upload) are   *)
(* tuples of characters.  A character is a one-character string, or, for a  *)
(* character a TLA+ string cannot hold, the name of its code point, such as *)
(* "U+00A0".  Strings the code only passes around (messages) are TLA+       *)
(* strings.                                                                 *)
(***************************************************************************)
EXTENDS Integers, Sequences, FiniteSets, TLC

VARIABLES
    model,      \* main.py: the global model handle
    phase,      \* where the lifespan context manager is
    health,     \* the last GET /health response body
    disk,       \* the temporary directory: name -> file
    req,        \* per request slot: the handler's locals and its response
    adCall,     \* the last direct call of detect_with_annotated_image
    mapRun      \* the last call of load_class_mapping

vars == <<model, phase, health, disk, req, adCall, mapRun>>

-----------------------------------------------------------------------------
(* Bounds *)

MaxRequests == 2    \* request slots handled concurrently
NumNames == 2       \* random temporary names available per suffix
MaxBoxes == 2       \* boxes in one detector result
MaxFileLen == 7     \* characters in the class mapping file

Requests == 1..MaxRequests

-----------------------------------------------------------------------------
(* Python values *)

PyNone == <<"None">>            \* None, where a character string may stand

ModelNone == "None"             \* model = None
ModelLoaded == "YOLO"           \* model = YOLO("model/best.pt")

PyStr(s) == IF s = PyNone THEN <<"N", "o", "n", "e">> ELSE s

Truthy(s) == s # PyNone /\ s # <<>>

StartsWith(s, p) == Len(s) >= Len(p) /\ SubSeq(s, 1, Len(p)) = p

ImagePrefix == <<"i", "m", "a", "g", "e", "/">>

CT_png == ImagePrefix \o <<"p", "n", "g">>
CT_bare == ImagePrefix
CT_text == <<"t", "e", "x", "t", "/", "p", "l", "a", "i", "n">>
CT_noslash == <<"i", "m", "a", "g", "e">>
CT_upper == <<"I", "m", "a", "g", "e", "/", "p", "n", "g">>
CT_inner == <<"x", "/">> \o ImagePrefix

ContentTypes == {PyNone, <<>>, CT_png, CT_bare, CT_text, CT_noslash, CT_upper, CT_inner}

FN_png == <<"s", ".", "p", "n", "g">>
FN_noext == <<"s">>
FN_hidden == <<".", "p", "n", "g">>
FN_dot == <<"s", ".">>
FN_dir == <<"a", ".", "b", "/", "c">>
FN_slash == <<"s", ".", "p", "n", "g", "/">>
FN_curdir == <<"x", ".", "y", "/", ".">>

\* file.filename is the client's: it may be absent, empty, or hold "/"
Filenames ==
    {PyNone, <<>>, FN_png, FN_noext, FN_hidden, FN_dot, FN_dir, FN_slash, FN_curdir}

\* the bytes of the image client r uploads; no two clients upload the same bytes
UploadOf(r) == <<"i", "m", "g", ToString(r)>>

Uploads == {UploadOf(r) : r \in Requests}

Endpoints == {"/detect", "/detect/image"}

EmptyBytes == <<>>

-----------------------------------------------------------------------------
(* yolo_module.py: dictionaries, in insertion order, as sequences of pairs *)

DictHas(d, k) == \E i \in 1..Len(d) : d[i][1] = k

DictGet(d, k) == d[CHOOSE i \in 1..Len(d) : d[i][1] = k][2]

\* DictSet keeping the value a key already has
DictSet_FirstWins(d, k, v) ==
    IF DictHas(d, k) THEN d ELSE Append(d, <<k, v>>)

\* class_mapping[key] = value
DictSet(d, k, v) ==
    IF DictHas(d, k)
    THEN [i \in 1..Len(d) |-> IF d[i][1] = k THEN <<k, v>> ELSE d[i]]
    ELSE Append(d, <<k, v>>)

\* the optional class_mapping argument: None, or a dictionary
NoMapping == [given |-> FALSE, dict |-> <<>>]

SomeMapping(d) == [given |-> TRUE, dict |-> d]

-----------------------------------------------------------------------------
(* yolo_module.py: load_class_mapping *)

\* the characters str.isspace() holds for
Whitespace ==
    {"\t", "\n", "U+000B", "\f", "\r", "U+001C", "U+001D", "U+001E", "U+001F", " ",
     "U+0085", "U+00A0", "U+1680", "U+2000", "U+2001", "U+2002", "U+2003", "U+2004",
     "U+2005", "U+2006", "U+2007", "U+2008", "U+2009", "U+200A", "U+2028", "U+2029",
     "U+202F", "U+205F", "U+3000"}

\* the characters str.strip() removes
IsSpace(c) == c \in Whitespace

RECURSIVE LStrip(_)
LStrip(s) == IF s # <<>> /\ IsSpace(s[1]) THEN LStrip(Tail(s)) ELSE s

RECURSIVE RStrip(_)
RStrip(s) ==
    IF s # <<>> /\ IsSpace(s[Len(s)]) THEN RStrip(SubSeq(s, 1, Len(s) - 1)) ELSE s

\* str.strip()
Strip(s) == RStrip(LStrip(s))

\* the 1-based place of the first c of s at or after place i, 0 when there is none
RECURSIVE Find(_, _, _)
Find(s, c, i) ==
    IF i > Len(s) THEN 0 ELSE IF s[i] = c THEN i ELSE Find(s, c, i + 1)

\* line.split('=', 1), for a line that holds an '='
SplitAtEq(line) ==
    LET p == Find(line, "=", 1)
    IN  <<SubSeq(line, 1, p - 1), SubSeq(line, p + 1, Len(line))>>

\* the 1-based place of the first line end ("\n" or "\r") of s, 0 when there is none
RECURSIVE FindLineEnd(_, _)
FindLineEnd(s, i) ==
    IF i > Len(s) THEN 0
    ELSE IF s[i] \in {"\n", "\r"} THEN i ELSE FindLineEnd(s, i + 1)

\* for line in f, the file opened in text mode with universal newlines: "\n", "\r"
\* and "\r\n" each end a line, and each reaches the loop as "\n"
RECURSIVE FileLines(_)
FileLines(content) ==
    IF content = <<>> THEN <<>>
    ELSE LET p == FindLineEnd(content, 1)
             q == IF content[p] = "\r" /\ p < Len(content) /\ content[p + 1] = "\n"
                  THEN p + 1 ELSE p
         IN  IF p = 0 THEN <<content>>
             ELSE <<Append(SubSeq(content, 1, p - 1), "\n")>>
                      \o FileLines(SubSeq(content, q + 1, Len(content)))

\* the body of the loop, for one line of the file
ParseLine(class_mapping, raw) ==
    LET line == Strip(raw)
    IN  IF line = <<>> \/ Find(line, "=", 1) = 0 THEN class_mapping
        ELSE LET parts == SplitAtEq(line)
             IN  DictSet(class_mapping, Strip(parts[1]), Strip(parts[2]))

\* the loop over the first n of the lines
RECURSIVE ParseLines(_, _)
ParseLines(lines, n) ==
    IF n = 0 THEN <<>> ELSE ParseLine(ParseLines(lines, n - 1), lines[n])

\* the except clauses: FileNotFoundError, then every other Exception
Caught(error) == error = "FileNotFoundError" \/ error # ""

\* exists: whether open() finds the file; read_error: the error a read of the file
\* raises ("" for none) once lines_before lines have gone through the loop
LoadClassMapping(exists, content, read_error, lines_before) ==
    LET lines == FileLines(content)
        error == IF ~exists THEN "FileNotFoundError" ELSE read_error
        class_mapping ==
            IF ~exists THEN <<>>
            ELSE IF read_error # "" THEN ParseLines(lines, lines_before)
            ELSE ParseLines(lines, Len(lines))
    IN  [raised |-> error # "" /\ ~Caught(error), class_mapping |-> class_mapping]

-----------------------------------------------------------------------------
(* yolo_module.py: detect_with_annotated_image *)

\* result.names of the loaded model: class index -> class code
YoloNames == (0 :> <<"a">>) @@ (1 :> <<"b">>)

Raised(msg) ==
    [raised |-> TRUE, msg |-> msg, detection_results |-> <<>>,
     annotated_image_bytes |->
         [format |-> "", channels |-> "", image |-> EmptyBytes, drawn |-> <<>>]]

Returned(dets, bytes) ==
    [raised |-> FALSE, msg |-> "", detection_results |-> dets,
     annotated_image_bytes |-> bytes]

\* result.boxes is None or empty: nothing to draw, nothing to report
HasBoxes(predicted) == ~predicted.boxes_none /\ Len(predicted.boxes) > 0

\* result.plot(): the image with the boxes drawn, in BGR order
Plot(predicted, image) ==
    [channels |-> "BGR", image |-> image,
     drawn |-> IF HasBoxes(predicted) THEN predicted.boxes ELSE <<>>]

\* annotated_img[:, :, ::-1]
ReverseChannels(img) ==
    [img EXCEPT !.channels = IF @ = "BGR" THEN "RGB" ELSE "BGR"]

\* Image.fromarray(img_rgb).save(img_bytes, format=image_format); getvalue()
EncodeImage(img, image_format) ==
    [format |-> image_format, channels |-> img.channels, image |-> img.image,
     drawn |-> img.drawn]

\* the class_name test of the loop body
HasClassName(class_mapping, class_key) ==
    /\ class_mapping.given
    /\ class_mapping.dict # <<>>
    /\ DictHas(class_mapping.dict, class_key)

\* DetectionIndex counting from 0, as the loop variable does
DetectionIndex_FromZero(i) == i

\* the index given to the i-th box of the loop, i counted from 0
DetectionIndex(i) == i + 1

\* Detection with the class code itself as class_name
Detection_CodeAsName(i, box, class_mapping) ==
    LET class_key == YoloNames[box.cls]
        detection ==
            [index |-> DetectionIndex(i), class |-> class_key, confidence |-> box.conf,
             bbox |-> [x1 |-> box.xyxy[1], y1 |-> box.xyxy[2],
                       x2 |-> box.xyxy[3], y2 |-> box.xyxy[4]]]
    IN  IF HasClassName(class_mapping, class_key)
        THEN detection @@ [class_name |-> class_key]
        ELSE detection

\* one pass of the loop body, for boxes[i] with i counted from 0
Detection(i, box, class_mapping) ==
    LET class_key == YoloNames[box.cls]
        detection ==
            [index |-> DetectionIndex(i), class |-> class_key, confidence |-> box.conf,
             bbox |-> [x1 |-> box.xyxy[1], y1 |-> box.xyxy[2],
                       x2 |-> box.xyxy[3], y2 |-> box.xyxy[4]]]
    IN  IF HasClassName(class_mapping, class_key)
        THEN detection @@ [class_name |-> DictGet(class_mapping.dict, class_key)]
        ELSE detection

\* for i in range(len(boxes)), from box number i on (i counted from 0), appending to acc;
\* result.names[cls] raises KeyError for a class index the model has no name for
RECURSIVE ParseBoxes(_, _, _, _)
ParseBoxes(boxes, i, acc, class_mapping) ==
    IF i >= Len(boxes) THEN [raised |-> FALSE, msg |-> "", dets |-> acc]
    ELSE IF boxes[i + 1].cls \notin DOMAIN YoloNames
         THEN [raised |-> TRUE, msg |-> ToString(boxes[i + 1].cls), dets |-> acc]
         ELSE ParseBoxes(boxes, i + 1,
                         Append(acc, Detection(i, boxes[i + 1], class_mapping)),
                         class_mapping)

\* predicted: what model.predict does on this source (it raises, or its results[0])
DetectWithAnnotatedImage(predicted, image, image_format, class_mapping) ==
    IF predicted.predict_error # "" THEN Raised(predicted.predict_error)
    ELSE IF predicted.encode_error # "" THEN Raised(predicted.encode_error)
    ELSE LET annotated_image_bytes ==
                 EncodeImage(ReverseChannels(Plot(predicted, image)), image_format)
             parsed ==
                 IF HasBoxes(predicted)
                 THEN ParseBoxes(predicted.boxes, 0, <<>>, class_mapping)
                 ELSE [raised |-> FALSE, msg |-> "", dets |-> <<>>]
         IN  IF parsed.raised THEN Raised(parsed.msg)
             ELSE Returned(parsed.dets, annotated_image_bytes)

-----------------------------------------------------------------------------
(* main.py: values of the request handlers *)

RECURSIVE JoinChars(_)
JoinChars(s) == IF s = <<>> THEN "" ELSE s[1] \o JoinChars(Tail(s))

\* the 1-based place of the last "." of name, 0 when there is none (str.rfind)
RECURSIVE RFindDot(_, _)
RFindDot(name, p) ==
    IF p = 0 THEN 0 ELSE IF name[p] = "." THEN p ELSE RFindDot(name, p - 1)

\* str.split("/")
RECURSIVE SplitSlash(_)
SplitSlash(path) ==
    LET p == Find(path, "/", 1)
    IN  IF p = 0 THEN <<path>>
        ELSE <<SubSeq(path, 1, p - 1)>> \o SplitSlash(SubSeq(path, p + 1, Len(path)))

\* pathlib: the parts of a path below its root; empty and "." components are dropped
PathParts(path) == SelectSeq(SplitSlash(path), LAMBDA part : part \notin {<<>>, <<".">>})

\* pathlib: Path(path).name, the final component, "" when there is none
PathName(path) ==
    LET parts == PathParts(path)
    IN  IF parts = <<>> THEN <<>> ELSE parts[Len(parts)]

\* pathlib: Path(path).suffix, the last suffix of the final component
PathSuffix(path) ==
    LET name == PathName(path)
        p == RFindDot(name, Len(name))
    IN  IF 1 < p /\ p < Len(name) THEN SubSeq(name, p, Len(name)) ELSE <<>>

DefaultName == <<"i", "m", "a", "g", "e", ".", "j", "p", "g">>
DefaultSuffix == <<".", "j", "p", "g">>

\* Path(file.filename or "image.jpg").suffix or ".jpg"
FileExtension(filename) ==
    LET suffix == PathSuffix(IF Truthy(filename) THEN filename ELSE DefaultName)
    IN  IF suffix # <<>> THEN suffix ELSE DefaultSuffix

NoPath == <<0, <<>>>>           \* temp_file_path = None
NotRead == <<"<not read>">>     \* image_bytes before file.read()
NotRun == [ran |-> FALSE, found |-> FALSE, data |-> EmptyBytes, owner |-> 0]

NoResponse == [status |-> 0]

HTTPException(status_code, detail) == [status |-> status_code, detail |-> detail]

\* IsImageUpload with "image/" looked for anywhere in the content type
IsImageUpload_Anywhere(content_type) ==
    /\ Truthy(content_type)
    /\ \E i \in 1..Len(content_type) :
           StartsWith(SubSeq(content_type, i, Len(content_type)), ImagePrefix)

\* the content type test of both handlers
IsImageUpload(content_type) ==
    Truthy(content_type) /\ StartsWith(content_type, ImagePrefix)

\* DetectionFailed without the message of the exception
DetectionFailed_NoMessage(msg) == HTTPException(500, "Detection failed")

\* except Exception as e: raise HTTPException(500, f"Detection failed: {str(e)}")
DetectionFailed(msg) == HTTPException(500, "Detection failed: " \o msg)

\* the dictionary detect_traffic_signs returns
DetectResponse(filename, detection_results) ==
    [status |-> 200,
     json |-> [filename |-> filename, detections |-> detection_results,
               detection_count |-> Len(detection_results)]]

\* the StreamingResponse detect_with_image returns
ImageResponse(filename, annotated_image_bytes) ==
    [status |-> 200, body |-> annotated_image_bytes, media_type |-> "image/jpeg",
     content_disposition |->
         "inline; filename=\"annotated_" \o JoinChars(PyStr(filename)) \o "\""]

\* the class_mapping argument the handlers pass to detect_with_annotated_image
HandlerClassMapping == NoMapping

IdleRequest ==
    [pc |-> "idle", endpoint |-> "", content_type |-> PyNone, filename |-> PyNone,
     upload |-> EmptyBytes, image_bytes |-> NotRead, temp_file |-> NoPath,
     temp_file_path |-> NoPath, created |-> FALSE, seen |-> NotRun, e |-> "",
     response |-> NoResponse]

NoHealth == [status |-> "", model_loaded |-> FALSE]

NoAdapterCall ==
    [called |-> FALSE, class_mapping |-> NoMapping,
     predicted |-> [predict_error |-> "", encode_error |-> "", boxes_none |-> TRUE,
                    boxes |-> <<>>],
     out |-> Raised("")]

NoMapRun == [called |-> FALSE, exists |-> FALSE, content |-> <<>>, read_error |-> "",
             lines_before |-> 0, raised |-> FALSE, class_mapping |-> <<>>]

-----------------------------------------------------------------------------
(* main.py: lifespan and GET /health *)

\* lifespan, up to the yield: load_model returns, or raises and startup aborts
Startup(load_fails) ==
    /\ phase = "init"
    /\ IF load_fails
       THEN /\ phase' = "failed"
            /\ model' = model
       ELSE /\ phase' = "serving"
            /\ model' = ModelLoaded
    /\ UNCHANGED <<health, disk, req, adCall, mapRun>>

\* lifespan, after the yield
Shutdown ==
    /\ phase = "serving"
    /\ phase' = "shutdown"
    /\ UNCHANGED <<model, health, disk, req, adCall, mapRun>>

\* HealthResponse reporting whether the lifespan has started, not the handle
HealthResponse_Phase == [status |-> "healthy", model_loaded |-> phase # "init"]

HealthResponse == [status |-> "healthy", model_loaded |-> model # ModelNone]

HealthCheck ==
    /\ phase # "shutdown"
    /\ health' = HealthResponse
    /\ UNCHANGED <<model, phase, disk, req, adCall, mapRun>>

-----------------------------------------------------------------------------
(* main.py: detect_traffic_signs and detect_with_image, step by step.  The   *)
(* two handlers differ only in the response they build.                      *)

\* Rejection with the two tests in the other order
Rejection_TypeFirst(content_type) ==
    IF ~IsImageUpload(content_type)
    THEN HTTPException(400, "File must be an image. Got: "
                                \o JoinChars(PyStr(content_type)))
    ELSE IF model = ModelNone THEN HTTPException(503, "Model not loaded")
         ELSE NoResponse

\* the HTTPException the two tests before the try block raise, NoResponse when
\* both pass: the 503 test, then the 400 test
Rejection(content_type) ==
    IF model = ModelNone THEN HTTPException(503, "Model not loaded")
    ELSE IF ~IsImageUpload(content_type)
         THEN HTTPException(400, "File must be an image. Got: "
                                     \o JoinChars(PyStr(content_type)))
         ELSE NoResponse

\* the except clause: e is bound, the 500 is raised, the finally clause is next
Except(rq, msg) ==
    [rq EXCEPT !.pc = "finally", !.e = msg, !.response = DetectionFailed(msg)]

\* to the first await: the 503 test, the 400 test, temp_file_path = None
Entry(r, endpoint, content_type, filename, upload) ==
    /\ req[r].pc = "idle"
    /\ phase # "shutdown"
    /\ LET arrived == [req[r] EXCEPT !.endpoint = endpoint,
                                     !.content_type = content_type,
                                     !.filename = filename, !.upload = upload]
       IN  req' = [req EXCEPT ![r] =
               IF Rejection(content_type) # NoResponse
               THEN [arrived EXCEPT !.pc = "done",
                                    !.response = Rejection(content_type)]
               ELSE [arrived EXCEPT !.pc = "read", !.temp_file_path = NoPath]]
    /\ UNCHANGED <<model, phase, health, disk, adCall, mapRun>>

\* image_bytes = await file.read()
ReadUpload(r, error) ==
    /\ req[r].pc = "read"
    /\ req' = [req EXCEPT ![r] =
           IF error # "" THEN Except(@, error)
           ELSE [@ EXCEPT !.pc = "create", !.image_bytes = req[r].upload]]
    /\ UNCHANGED <<model, phase, health, disk, adCall, mapRun>>

\* FreeNames without the test that no file has the name
FreeNames_Any(suffix) == {<<n, suffix>> : n \in 1..NumNames}

\* the names NamedTemporaryFile may still take for this suffix
FreeNames(suffix) == {<<n, suffix>> : n \in 1..NumNames} \ DOMAIN disk

\* tempfile.NamedTemporaryFile(delete=False, suffix=file_extension): an empty file
\* under a name no file has, or an error (FileExistsError when no name is free)
CreateTempFile(r, n, error) ==
    /\ req[r].pc = "create"
    /\ LET name == <<n, FileExtension(req[r].filename)>>
       IN  IF error # "" \/ FreeNames(FileExtension(req[r].filename)) = {}
           THEN /\ req' = [req EXCEPT ![r] =
                       Except(@, IF error # "" THEN error
                                 ELSE "[Errno 17] No usable temporary file name found")]
                /\ disk' = disk
           ELSE /\ name \in FreeNames(FileExtension(req[r].filename))
                /\ disk' = (name :> [data |-> EmptyBytes, owner |-> r]) @@ disk
                /\ req' = [req EXCEPT ![r] =
                       [@ EXCEPT !.pc = "write", !.temp_file = name,
                                 !.created = TRUE]]
    /\ UNCHANGED <<model, phase, health, adCall, mapRun>>

\* temp_file.write(image_bytes); temp_file_path = temp_file.name; the with block's
\* close.  A write that raises leaves the with block before temp_file_path is set.
\* reached: how many of the bytes are in the file when the step ends; a write that
\* raises has not written them all, a close that raises may have flushed any part.
\* The with block closes the file also when the write has raised; when that close
\* raises too, its exception is the one that leaves the with block.
WriteTempFile(r, write_error, close_error, reached) ==
    /\ req[r].pc = "write"
    /\ reached \in 0..Len(req[r].image_bytes)
    /\ write_error # "" => reached < Len(req[r].image_bytes) \/ reached = 0
    /\ write_error = "" /\ close_error = "" => reached = Len(req[r].image_bytes)
    /\ LET name == req[r].temp_file
           written == IF name \in DOMAIN disk
                      THEN [disk EXCEPT ![name].data =
                                SubSeq(req[r].image_bytes, 1, reached)]
                      ELSE disk
       IN  IF write_error # ""
           THEN /\ disk' = written
                /\ req' = [req EXCEPT ![r] =
                       Except(@, IF close_error # "" THEN close_error
                                 ELSE write_error)]
           ELSE IF close_error # ""
           THEN /\ disk' = written
                /\ req' = [req EXCEPT ![r] =
                       Except([@ EXCEPT !.temp_file_path = name], close_error)]
           ELSE /\ disk' = written
                /\ req' = [req EXCEPT ![r] =
                       [@ EXCEPT !.pc = "detect", !.temp_file_path = name]]
    /\ UNCHANGED <<model, phase, health, adCall, mapRun>>

\* the value a handler returns once detect_with_annotated_image has returned out
HandlerResponse(endpoint, filename, out) ==
    IF endpoint = "/detect"
    THEN DetectResponse(filename, out.detection_results)
    ELSE ImageResponse(filename, out.annotated_image_bytes)

\* what model.predict finds at the path it is given
SourceAt(path) ==
    IF path \in DOMAIN disk
    THEN [ran |-> TRUE, found |-> TRUE, data |-> disk[path].data,
          owner |-> disk[path].owner]
    ELSE [NotRun EXCEPT !.ran = TRUE]

\* detect_with_annotated_image(model=model, source=temp_file_path, ...) and the return
\* or the except clause that follows it; model.predict opens the source itself
RunDetection(r, predicted) ==
    /\ req[r].pc = "detect"
    /\ LET source == SourceAt(req[r].temp_file_path)
           out == IF source.found
                  THEN DetectWithAnnotatedImage(predicted, source.data, "JPEG",
                                                HandlerClassMapping)
                  ELSE Raised("source does not exist")
       IN  req' = [req EXCEPT ![r] =
               IF out.raised THEN Except([@ EXCEPT !.seen = source], out.msg)
               ELSE [@ EXCEPT !.pc = "finally", !.seen = source,
                              !.response = HandlerResponse(req[r].endpoint,
                                                           req[r].filename, out)]]
    /\ UNCHANGED <<model, phase, health, disk, adCall, mapRun>>

\* the files the finally clause of request r unlinks
UnlinkTargets(r) ==
    IF req[r].temp_file_path # NoPath THEN {req[r].temp_file_path} ELSE {}

\* finally: Path(temp_file_path).unlink(missing_ok=True), its exceptions swallowed;
\* the handler's frame, with its file variables, is gone once it has returned
Finally(r, unlink_fails) ==
    /\ req[r].pc = "finally"
    /\ disk' = IF unlink_fails THEN disk
               ELSE [name \in DOMAIN disk \ UnlinkTargets(r) |-> disk[name]]
    /\ req' = [req EXCEPT ![r] =
           [@ EXCEPT !.pc = "done", !.temp_file = NoPath, !.temp_file_path = NoPath]]
    /\ UNCHANGED <<model, phase, health, adCall, mapRun>>

\* detect_with_annotated_image called once by another caller, with any class_mapping
AdapterCall(image, image_format) ==
    /\ ~adCall.called
    /\ adCall' = [adCall EXCEPT !.called = TRUE,
                      !.out = DetectWithAnnotatedImage(adCall.predicted, image,
                                  image_format, adCall.class_mapping)]
    /\ UNCHANGED <<model, phase, health, disk, req, mapRun>>

-----------------------------------------------------------------------------
(* The environment: what the detector may answer, what may fail *)

SeqsUpTo(S, n) == UNION {[1..k -> S] : k \in 0..n}

\* class 2 is one the model's names do not hold
Boxes ==
    {[cls |-> 0, conf |-> 90, xyxy |-> <<1, 2, 3, 4>>],
     [cls |-> 1, conf |-> 30, xyxy |-> <<5, 6, 7, 8>>],
     [cls |-> 2, conf |-> 60, xyxy |-> <<2, 2, 4, 4>>]}

Predicts(boxes_none, boxes) ==
    [predict_error |-> "", encode_error |-> "", boxes_none |-> boxes_none,
     boxes |-> boxes]

PredictFails == [Predicts(TRUE, <<>>) EXCEPT !.predict_error = "cannot identify image"]
EncodeFails(boxes) == [Predicts(FALSE, boxes) EXCEPT !.encode_error = "encoder error"]

\* every answer of the detector with at most MaxBoxes boxes
Predictions ==
    {PredictFails, Predicts(TRUE, <<>>)}
        \cup {Predicts(FALSE, b) : b \in SeqsUpTo(Boxes, MaxBoxes)}
        \cup {EncodeFails(b) : b \in SeqsUpTo(Boxes, 1)}

\* a few of them, for the runs with several requests in flight
FewPredictions ==
    {PredictFails, Predicts(FALSE, <<>>),
     Predicts(FALSE, <<[cls |-> 0, conf |-> 90, xyxy |-> <<1, 2, 3, 4>>]>>)}

Errors(msg) == {"", msg}

Init ==
    /\ model = ModelNone
    /\ phase = "init"
    /\ health = NoHealth
    /\ disk = <<>>
    /\ req = [r \in Requests |-> IdleRequest]
    /\ adCall = NoAdapterCall
    /\ mapRun = NoMapRun

(* One request, with every input and every failure *)
Next ==
    \/ \E load_fails \in BOOLEAN : Startup(load_fails)
    \/ Shutdown
    \/ HealthCheck
    \/ \E endpoint \in Endpoints, content_type \in ContentTypes,
          filename \in Filenames, upload \in Uploads :
            Entry(1, endpoint, content_type, filename, upload)
    \/ \E error \in Errors("read failed") : ReadUpload(1, error)
    \/ \E n \in 1..NumNames, error \in Errors("[Errno 2] No usable temporary directory found") :
            CreateTempFile(1, n, error)
    \/ \E write_error \in Errors("[Errno 28] No space left on device"),
          close_error \in Errors("[Errno 5] Input/output error"),
          reached \in 0..Len(req[1].image_bytes) :
            WriteTempFile(1, write_error, close_error, reached)
    \/ \E predicted \in Predictions : RunDetection(1, predicted)
    \/ \E unlink_fails \in BOOLEAN : Finally(1, unlink_fails)

Spec == Init /\ [][Next]_vars

(* Several requests in flight, each step of a handler interleaved with the others' *)
NextConcurrent ==
    \/ \E load_fails \in BOOLEAN : Startup(load_fails)
    \/ \E r \in Requests, endpoint \in Endpoints, content_type \in {CT_png, CT_text} :
            Entry(r, endpoint, content_type, FN_png, UploadOf(r))
    \/ \E r \in Requests, error \in Errors("read failed") : ReadUpload(r, error)
    \/ \E r \in Requests, n \in 1..NumNames, error \in Errors("[Errno 2] No usable temporary directory found") :
            CreateTempFile(r, n, error)
    \/ \E r \in Requests, write_error \in Errors("[Errno 28] No space left on device"),
          close_error \in Errors("[Errno 5] Input/output error") :
            \E reached \in 0..Len(req[r].image_bytes) :
                WriteTempFile(r, write_error, close_error, reached)
    \/ \E r \in Requests, predicted \in FewPredictions : RunDetection(r, predicted)
    \/ \E r \in Requests, unlink_fails \in BOOLEAN : Finally(r, unlink_fails)

SpecConcurrent == Init /\ [][NextConcurrent]_vars

-----------------------------------------------------------------------------
(* load_class_mapping, called once, on every small file *)

MapChars == {"a", "=", " ", "\n"}

\* other white space, and the other line ends
MapCharsWide == {"a", "=", "\n", "\r", "\t", "U+00A0"}

\* every text of MaxFileLen characters or fewer, and the shorter ones with the
\* wider choice of characters
MapFiles == SeqsUpTo(MapChars, MaxFileLen) \cup SeqsUpTo(MapCharsWide, MaxFileLen - 3)

\* load_class_mapping(mapping_path) on a file that is there and reads to its end
LoadMapping ==
    /\ ~mapRun.called
    /\ mapRun.exists
    /\ mapRun' = LoadClassMapping(TRUE, mapRun.content, "", 0)
                 @@ [mapRun EXCEPT !.called = TRUE]
    /\ UNCHANGED <<model, phase, health, disk, req, adCall>>

\* ... on a file whose read raises after lines_before lines
LoadMappingReadError(read_error, lines_before) ==
    /\ ~mapRun.called
    /\ mapRun.exists
    /\ lines_before \in 0..Len(FileLines(mapRun.content))
    /\ mapRun' = LoadClassMapping(TRUE, mapRun.content, read_error, lines_before)
                 @@ [mapRun EXCEPT !.called = TRUE, !.read_error = read_error,
                                   !.lines_before = lines_before]
    /\ UNCHANGED <<model, phase, health, disk, req, adCall>>

\* ... on a path where no file is
LoadMappingMissing ==
    /\ ~mapRun.called
    /\ ~mapRun.exists
    /\ mapRun' = LoadClassMapping(FALSE, mapRun.content, "", 0)
                 @@ [mapRun EXCEPT !.called = TRUE]
    /\ UNCHANGED <<model, phase, health, disk, req, adCall>>

\* the file at mapping_path: missing, or there with any content
InitMapping ==
    /\ model = ModelNone
    /\ phase = "init"
    /\ health = NoHealth
    /\ disk = <<>>
    /\ req = [r \in Requests |-> IdleRequest]
    /\ adCall = NoAdapterCall
    /\ \/ mapRun = NoMapRun
       \/ \E content \in MapFiles :
              mapRun = [NoMapRun EXCEPT !.exists = TRUE, !.content = content]

NextMapping ==
    \/ LoadMapping
    \/ \E lines_before \in 0..MaxFileLen :
            LoadMappingReadError("invalid start byte", lines_before)
    \/ LoadMappingMissing

SpecMapping == InitMapping /\ [][NextMapping]_vars

-----------------------------------------------------------------------------
(* detect_with_annotated_image with every class mapping, beside one request *)

MappingKeys == {<<"a">>, <<"c">>}
MappingLabels == {<<"x">>, <<"y">>}

\* the dictionaries load_class_mapping can return: no key twice
Mappings ==
    {d \in SeqsUpTo(MappingKeys \X MappingLabels, 2) :
        \A i, j \in 1..Len(d) : d[i][1] = d[j][1] => i = j}

ClassMappings == {NoMapping} \cup {SomeMapping(d) : d \in Mappings}

\* the arguments of the call: any answer of the detector, any class_mapping
InitAdapter ==
    /\ model = ModelNone
    /\ phase = "init"
    /\ health = NoHealth
    /\ disk = <<>>
    /\ req = [r \in Requests |-> IdleRequest]
    /\ mapRun = NoMapRun
    /\ \E predicted \in Predictions, class_mapping \in ClassMappings :
            adCall = [NoAdapterCall EXCEPT !.predicted = predicted,
                                           !.class_mapping = class_mapping]

NextAdapter ==
    \/ \E image_format \in {"JPEG", "PNG"} : AdapterCall(<<"i", "m", "g", "0">>, image_format)
    \/ \E load_fails \in BOOLEAN : Startup(load_fails)
    \/ \E endpoint \in Endpoints : Entry(1, endpoint, CT_png, FN_png, UploadOf(1))
    \/ ReadUpload(1, "")
    \/ \E n \in 1..NumNames : CreateTempFile(1, n, "")
    \/ WriteTempFile(1, "", "", Len(req[1].image_bytes))
    \/ \E predicted \in Predictions : RunDetection(1, predicted)
    \/ Finally(1, FALSE)

SpecAdapter == InitAdapter /\ [][NextAdapter]_vars

-----------------------------------------------------------------------------
(* Claims about the request handlers, checked under Spec *)

\* request r enters its handler in this step
Enters(r) == req[r].pc = "idle" /\ req'[r].pc # "idle"

\* request r has been answered at once, and nothing else has happened
AnsweredAtOnce(r, status) ==
    /\ req'[r].pc = "done"
    /\ req'[r].response.status = status
    /\ req'[r].image_bytes = NotRead
    /\ ~req'[r].created
    /\ ~req'[r].seen.ran
    /\ disk' = disk
    /\ model' = model

\* C1: once a handler has finished, no temporary file its request created is on disk
C1_NoTempFileRemains ==
    \A r \in Requests :
        req[r].pc = "done" => \A name \in DOMAIN disk : disk[name].owner # r

NotAnImageType(content_type) ==
    \/ content_type = PyNone
    \/ Len(content_type) < 6
    \/ <<content_type[1], content_type[2], content_type[3], content_type[4],
         content_type[5], content_type[6]>> # <<"i", "m", "a", "g", "e", "/">>

\* C2: with the model loaded, an upload whose content type is absent or does not
\* start with "image/" is answered 400 at once: the upload is not read, no temporary
\* file is created, inference is not run
C2_NonImageRejected ==
    [][\A r \in Requests :
          Enters(r) /\ model # ModelNone /\ NotAnImageType(req'[r].content_type)
              => AnsweredAtOnce(r, 400)]_vars

C2_Witness ==
    \E r \in Requests :
        /\ req[r].pc = "done"
        /\ req[r].response.status = 400
        /\ req[r].content_type = CT_inner
        /\ model = ModelLoaded

\* C3: with the model not loaded, every upload, image or not, is answered 503 at
\* once: no temporary file is created, inference is not run
C3_NotLoadedUnavailable ==
    [][\A r \in Requests :
          Enters(r) /\ model = ModelNone => AnsweredAtOnce(r, 503)]_vars

C3_Witness ==
    \E r \in Requests :
        /\ req[r].pc = "done"
        /\ req[r].response.status = 503
        /\ NotAnImageType(req[r].content_type)

\* C4: a request past the 503 and 400 tests ends with 200, or, when an exception was
\* raised on the way, with 500 and a detail that carries the exception's message
C4_ExceptionIs500 ==
    \A r \in Requests :
        req[r].pc \in {"finally", "done"} /\ req[r].response.status \notin {400, 503}
            => IF req[r].e # ""
               THEN /\ req[r].response.status = 500
                    /\ req[r].response.detail = "Detection failed: " \o req[r].e
               ELSE /\ req[r].response.status = 200
                    /\ req[r].seen.found

C4_Witness ==
    \E r \in Requests :
        /\ req[r].pc = "done"
        /\ req[r].response.status = 500
        /\ req[r].e = "encoder error"

\* C5: the model handle changes only from not loaded to loaded, in the startup of
\* the lifespan; GET /health reports whether the handle is loaded and changes
\* nothing else; once it has reported true it does not report false
C5_ModelSetOnce ==
    [][/\ model' # model =>
            model = ModelNone /\ model' = ModelLoaded /\ phase = "init" /\ req' = req
       /\ HealthCheck => health'.model_loaded = (model # ModelNone)
       /\ health' # health =>
            /\ health'.model_loaded = (model # ModelNone)
            /\ UNCHANGED <<model, phase, disk, req>>
       /\ health.model_loaded => health'.model_loaded]_vars

C5_Witness ==
    /\ health.model_loaded
    /\ phase = "shutdown"
    /\ \E r \in Requests : req[r].pc = "done" /\ req[r].response.status = 200

-----------------------------------------------------------------------------
(* Claims about detect_with_annotated_image, checked under SpecAdapter *)

PredictedBoxes(predicted) == IF predicted.boxes_none THEN <<>> ELSE predicted.boxes

BoxFields(det, i, box) ==
    /\ det.index = i
    /\ det.class = YoloNames[box.cls]
    /\ det.confidence = box.conf
    /\ det.bbox = [x1 |-> box.xyxy[1], y1 |-> box.xyxy[2],
                   x2 |-> box.xyxy[3], y2 |-> box.xyxy[4]]

DetectAnswers ==
    {r \in Requests : req[r].response.status = 200 /\ req[r].endpoint = "/detect"}

\* C6: the detections are one per predicted box, in the detector's order, numbered
\* 1, 2, ..., n; with no boxes the list is empty and the annotated image is still
\* returned; detection_count of a /detect response is the length of its detections
C6_IndexedInOrder ==
    /\ adCall.called /\ ~adCall.out.raised =>
          LET boxes == PredictedBoxes(adCall.predicted)
              dets == adCall.out.detection_results
              bytes == adCall.out.annotated_image_bytes
          IN  /\ Len(dets) = Len(boxes)
              /\ \A i \in 1..Len(boxes) : BoxFields(dets[i], i, boxes[i])
              /\ bytes.image = <<"i", "m", "g", "0">> /\ bytes.format \in {"JPEG", "PNG"}
              /\ bytes.channels = "RGB" /\ bytes.drawn = boxes
    /\ \A r \in DetectAnswers :
          LET json == req[r].response.json
          IN  /\ json.detection_count = Len(json.detections)
              /\ \A i \in 1..Len(json.detections) : json.detections[i].index = i

C6_Witness ==
    /\ adCall.called /\ ~adCall.out.raised
    /\ Len(adCall.out.detection_results) >= 2
    /\ \E r \in DetectAnswers : req[r].response.json.detection_count >= 2

\* C9: a detection carries class_name exactly when a class mapping was given and
\* holds the detection's class code, and class_name is then the mapping's value; its
\* other fields do not depend on the mapping; a /detect response carries none
C9_ClassNameIffMapped ==
    /\ adCall.called /\ ~adCall.out.raised =>
          LET boxes == PredictedBoxes(adCall.predicted)
              dets == adCall.out.detection_results
              mapping == adCall.class_mapping
          IN  \A i \in 1..Len(dets) :
                LET entries == {j \in 1..Len(mapping.dict) :
                                   mapping.dict[j][1] = YoloNames[boxes[i].cls]}
                IN  /\ BoxFields(dets[i], i, boxes[i])
                    /\ DOMAIN dets[i] \subseteq
                           {"index", "class", "confidence", "bbox", "class_name"}
                    /\ "class_name" \in DOMAIN dets[i]
                           <=> mapping.given /\ entries # {}
                    /\ "class_name" \in DOMAIN dets[i] =>
                           \A j \in entries : dets[i].class_name = mapping.dict[j][2]
    /\ \A r \in DetectAnswers :
          \A i \in 1..Len(req[r].response.json.detections) :
              "class_name" \notin DOMAIN req[r].response.json.detections[i]

C9_Witness ==
    /\ adCall.called /\ ~adCall.out.raised
    /\ \E i, j \in 1..Len(adCall.out.detection_results) :
          /\ "class_name" \in DOMAIN adCall.out.detection_results[i]
          /\ "class_name" \notin DOMAIN adCall.out.detection_results[j]
    /\ \E r \in DetectAnswers : req[r].response.json.detections # <<>>

-----------------------------------------------------------------------------
(* Claims about load_class_mapping, checked under SpecMapping *)

Least(S) == CHOOSE x \in S : \A y \in S : x <= y
Greatest(S) == CHOOSE x \in S : \A y \in S : x >= y

\* s without its leading and trailing whitespace
Trimmed(s) ==
    LET inked == {i \in 1..Len(s) : s[i] \notin Whitespace}
    IN  IF inked = {} THEN <<>> ELSE SubSeq(s, Least(inked), Greatest(inked))

\* the places of the text where a line starts, and the line that starts there; a
\* line ends with "\n", with "\r", or with the two together
LineStarts(text) ==
    {i \in 1..Len(text) :
        \/ i = 1
        \/ text[i - 1] = "\n"
        \/ text[i - 1] = "\r" /\ text[i] # "\n"}

LineAt(text, start) ==
    LET ends == {j \in start..Len(text) : text[j] \in {"\n", "\r"}}
    IN  SubSeq(text, start, IF ends = {} THEN Len(text) ELSE Least(ends))

EqPlaces(line) == {p \in 1..Len(line) : line[p] = "="}

KeyOf(line) ==
    LET t == Trimmed(line) IN Trimmed(SubSeq(t, 1, Least(EqPlaces(t)) - 1))

ValueOf(line) ==
    LET t == Trimmed(line) IN Trimmed(SubSeq(t, Least(EqPlaces(t)) + 1, Len(t)))

\* the starts of the lines that are entries: not blank, with an '='
EntryStarts(text) == {s \in LineStarts(text) : EqPlaces(LineAt(text, s)) # {}}

ReadToTheEnd == mapRun.called /\ mapRun.exists /\ mapRun.read_error = ""

\* C7: for a file read to its end the mapping returned holds exactly the keys of the
\* lines with an '=', each split at its first '=' and trimmed, every key with the
\* value of its last line; blank lines and lines without '=' add nothing
C7_MappingOfLines ==
    ReadToTheEnd =>
        LET text == mapRun.content
            result == mapRun.class_mapping
            starts == EntryStarts(text)
        IN  /\ ~mapRun.raised
            /\ \A i, j \in 1..Len(result) : result[i][1] = result[j][1] => i = j
            /\ {result[i][1] : i \in 1..Len(result)}
                   = {KeyOf(LineAt(text, s)) : s \in starts}
            /\ \A i \in 1..Len(result) :
                   result[i][2] =
                       ValueOf(LineAt(text, Greatest(
                           {s \in starts : KeyOf(LineAt(text, s)) = result[i][1]})))

C7_Witness ==
    /\ ReadToTheEnd
    /\ \E s, t \in EntryStarts(mapRun.content) :
          /\ s < t
          /\ KeyOf(LineAt(mapRun.content, s)) = KeyOf(LineAt(mapRun.content, t))
          /\ ValueOf(LineAt(mapRun.content, s)) # ValueOf(LineAt(mapRun.content, t))
    /\ \E s \in LineStarts(mapRun.content) : s \notin EntryStarts(mapRun.content)

\* C8: load_class_mapping does not raise, and returns an empty mapping when the file
\* is missing or a read of it fails, whenever the failure comes
C8_EmptyOnAnyError ==
    mapRun.called /\ (~mapRun.exists \/ mapRun.read_error # "")
        => ~mapRun.raised /\ mapRun.class_mapping = <<>>

-----------------------------------------------------------------------------
(* The claim about requests in flight together, checked under SpecConcurrent *)

Finishes(r) == req[r].pc = "finally" /\ req'[r].pc = "done"

Writes(r) == req[r].pc = "write" /\ req'[r].pc # "write"

\* C10: under every interleaving, the file a request hands to the detector exists,
\* is its own and holds its upload; a file is written only by the request that
\* created it, with bytes of that request's upload, and removed only by that
\* request's cleanup; no step of a handler changes the model handle
C10_OwnFileOnly ==
    /\ [](\A r \in Requests :
            req[r].seen.ran =>
                /\ req[r].seen.found
                /\ req[r].seen.owner = r
                /\ req[r].seen.data = req[r].upload)
    /\ [][/\ \A name \in DOMAIN disk \ DOMAIN disk' :
                \E r \in Requests : Finishes(r) /\ disk[name].owner = r
          /\ \A name \in DOMAIN disk \cap DOMAIN disk' :
                disk'[name] # disk[name] =>
                    \E r \in Requests :
                        /\ Writes(r)
                        /\ disk[name].owner = r
                        /\ disk'[name].owner = r
                        /\ \E k \in 0..Len(req[r].upload) :
                               disk'[name].data = SubSeq(req[r].upload, 1, k)
          /\ req' # req => model' = model]_vars

C10_Witness ==
    /\ \A r \in {1, 2} : req[r].pc = "finally" /\ req[r].seen.found
    /\ Cardinality(DOMAIN disk) >= 2

=============================================================================
